---- MODULE Spec2Model ----
(***************************************************************************)
(* A model of misc/word.py: DocumentConfig and MarkdownToDocxConverter.    *)
(*                                                                         *)
(* One state machine, four specifications over it:                         *)
(*   Spec        a converter object and its convert calls, step by step,   *)
(*               on a small file system;                                   *)
(*   SpecConfig  DocumentConfig.__init__ on bounded constructor arguments; *)
(*   SpecExtract the pre-processing of bounded Markdown contents;          *)
(*   SpecPost    _post_process_document on bounded documents.              *)
(***************************************************************************)
EXTENDS Integers, Sequences, FiniteSets, TLC

VARIABLES
    \* -- DocumentConfig --------------------------------------------------
    cfgArgs,      \* the arguments DocumentConfig.__init__ is called with
    cfgObj,       \* self.heading_colors / self.footer_text as __init__ stored them
    cfgResult,    \* "none" before the call, then "ok" or the exception raised
    \* -- the process and its environment ---------------------------------
    pandocAvail,  \* shutil.which('pandoc') finds the external converter
    loggerLevel,  \* level of the module-level logger: "INFO" or "WARNING"
    fs,           \* the file system entries convert touches
    imgFiles,     \* the files under img/: path -> [state, w, h]
    \* -- a converter object and the convert call in progress -------------
    conv,         \* the converter object: [built, verbose, center_title]
    ctorResult,   \* how the last constructor call ended
    pc,           \* position of the convert call ("idle" between calls)
    result,       \* how the last call ended, or the exception in flight
    content,      \* the Markdown text read from the input file
    title,        \* document_title
    image_refs,   \* the list _extract_image_references returned
    tempText,     \* what was written to the temporary Markdown copy
    \* -- the document being post-processed -------------------------------
    doc,          \* doc.paragraphs
    styles,       \* names of the styles the document defines
    styled,       \* names of the styles configured so far
    sections,     \* doc.sections: the section properties and the two footers
    tables,       \* doc.tables: each table its rows, each row its cells
    \* -- history (not program state) -------------------------------------
    log,          \* records emitted by the logger during the current call
    trace,        \* post-processing steps completed in the current call
    fs0,          \* fs when the current call started
    doc0,         \* doc when the paragraph walk started
    refs0,        \* image_refs when the paragraph walk started
    pandocRun     \* the pandoc subprocess of the current call: [ran, code, stderr]

cfgVars == <<cfgArgs, cfgObj, cfgResult>>
envVars == <<pandocAvail, loggerLevel, fs, imgFiles>>
callVars == <<conv, ctorResult, pc, result, content, title, image_refs, tempText>>
docVars == <<doc, styles, styled, sections, tables>>
histVars == <<log, trace, fs0, doc0, refs0, pandocRun>>
vars == <<cfgVars, envVars, callVars, docVars, histVars>>

(***************************************************************************)
(* DocumentConfig                                                          *)
(***************************************************************************)

\* An RGB value as the caller passes it: a tuple or some other sequence type.
GoodColor == [isTuple |-> TRUE, comps |-> <<37, 150, 190>>]

ColorArgs ==
    { GoodColor,
      [isTuple |-> TRUE,  comps |-> <<0, 0, 256>>],
      [isTuple |-> TRUE,  comps |-> <<-1, 0, 255>>],
      [isTuple |-> TRUE,  comps |-> <<10, 20>>],
      [isTuple |-> FALSE, comps |-> <<10, 20, 30>>] }

\* heading_colors: None, or a dict keyed 1..n, held as the sequence of its values.
HeadingColorArgs ==
    { [isNone |-> TRUE, d |-> << >>], [isNone |-> FALSE, d |-> << >>] }
    \cup { [isNone |-> FALSE, d |-> <<c>>] : c \in ColorArgs }
    \cup { [isNone |-> FALSE, d |-> <<GoodColor, c>>] : c \in ColorArgs }

\* footer_text: None, a dict (its key set), or a str (its length).
FooterArgs ==
    { [kind |-> "None", keys |-> {}, len |-> 0] }
    \cup { [kind |-> "dict", keys |-> k, len |-> Cardinality(k)] :
             k \in { {}, {"odd"}, {"even"}, {"odd", "even"}, {"odd", "even", "first"} } }
    \cup { [kind |-> "str", keys |-> {}, len |-> n] : n \in {0, 1} }

FontSizeArgs == {-1, 0, 12}
MarginArgs == [1..4 -> {-1, 2}]
LineSpacingArgs == {-1, 0, 1}

ConfigArgs ==
    [ base_font_size : FontSizeArgs, margins : MarginArgs,
      line_spacing : LineSpacingArgs, heading_colors : HeadingColorArgs,
      footer_text : FooterArgs ]

\* Python truth of the two optional arguments (None, an empty dict and an
\* empty str are all falsy).
HeadingColorsTruthy(hc) == ~hc.isNone /\ hc.d # << >>
FooterTextTruthy(ft) == ft.kind # "None" /\ ft.len > 0

DefaultHeadingColors ==
    [isNone |-> FALSE, d |-> <<GoodColor, GoodColor, GoodColor>>]
DefaultFooterText == [kind |-> "dict", keys |-> {"odd", "even"}, len |-> 2]

\* self.heading_colors = heading_colors or {...}
StoredHeadingColors(hc) ==
    IF HeadingColorsTruthy(hc) THEN hc ELSE DefaultHeadingColors

\* self.footer_text = footer_text or {...}
StoredFooterText(ft) ==
    IF FooterTextTruthy(ft) THEN ft ELSE DefaultFooterText

ColorIsRGBTuple(c) == c.isTuple /\ Len(c.comps) = 3
ColorInRange(c) == \A i \in 1..Len(c.comps) : 0 <= c.comps[i] /\ c.comps[i] <= 255

\* DocumentConfig._validate on the stored attributes: the exception it raises,
\* or "ok".
Validate(base_font_size, margins, line_spacing, heading_colors, footer_text) ==
    IF base_font_size <= 0 THEN "ValueError"
    ELSE IF \E i \in DOMAIN margins : margins[i] < 0 THEN "ValueError"
    ELSE IF line_spacing <= 0 THEN "ValueError"
    ELSE IF \E l \in DOMAIN heading_colors.d :
                ~ColorIsRGBTuple(heading_colors.d[l])
                \/ ~ColorInRange(heading_colors.d[l]) THEN "ValueError"
    ELSE IF footer_text.kind # "dict"
            \/ "odd" \notin footer_text.keys
            \/ "even" \notin footer_text.keys THEN "ValueError"
    ELSE "ok"

NoConfig == [heading_colors |-> DefaultHeadingColors, footer_text |-> DefaultFooterText]

\* DocumentConfig.__init__
ConfigInit ==
    /\ cfgResult = "none"
    /\ cfgObj' = [ heading_colors |-> StoredHeadingColors(cfgArgs.heading_colors),
                   footer_text |-> StoredFooterText(cfgArgs.footer_text) ]
    /\ cfgResult' = Validate(cfgArgs.base_font_size, cfgArgs.margins,
                             cfgArgs.line_spacing, cfgObj'.heading_colors,
                             cfgObj'.footer_text)
    /\ UNCHANGED <<cfgArgs, envVars, callVars, docVars, histVars>>

(***************************************************************************)
(* Markdown text.  A text is a sequence of tokens.  The tokens are the     *)
(* characters the code looks at; "W" stands for the word IMAGE_PLACEHOLDER,*)
(* "img/" for those four characters, "a" for any other character.          *)
(***************************************************************************)

Min(S) == CHOOSE x \in S : \A y \in S : x <= y

\* '.' of the pattern: any character but a newline, over s[a..b].
NoNewline(s, a, b) == \A t \in a..b : s[t] # "\n"

\* The places a ')' can close a match whose '](' stands at j, j+1.
CloseAt(s, j) ==
    { k \in (j + 2)..Len(s) : s[k] = ")" /\ NoNewline(s, j + 2, k - 1) }

\* The places the '](' of a match starting at i can stand.
AltEnds(s, i) ==
    { j \in (i + 2)..(Len(s) - 1) :
        /\ s[j] = "]" /\ s[j + 1] = "("
        /\ NoNewline(s, i + 2, j - 1)
        /\ CloseAt(s, j) # {} }

\* IMAGE_PATTERN = !\[(.*?)\]\((.*?)\) matches at position i.
MatchAt(s, i) ==
    /\ i + 1 <= Len(s)
    /\ s[i] = "!" /\ s[i + 1] = "["
    /\ AltEnds(s, i) # {}

\* The match at i: both groups are non-greedy, the first is tried shortest first.
TheMatch(s, i) ==
    LET j == Min(AltEnds(s, i))
        k == Min(CloseAt(s, j))
    IN  [start |-> i, mid |-> j, end |-> k]

\* The leftmost non-overlapping matches from position i on, as findall and sub
\* both scan them.
RECURSIVE Matches(_, _)
Matches(s, i) ==
    IF i > Len(s) THEN << >>
    ELSE IF MatchAt(s, i)
         THEN <<TheMatch(s, i)>> \o Matches(s, TheMatch(s, i).end + 1)
         ELSE Matches(s, i + 1)

IsSpace(c) == c \in {" ", "\n"}

\* str.strip()
RECURSIVE LStrip(_)
LStrip(s) == IF s # << >> /\ IsSpace(Head(s)) THEN LStrip(Tail(s)) ELSE s
RECURSIVE RStrip(_)
RStrip(s) ==
    IF s # << >> /\ IsSpace(s[Len(s)]) THEN RStrip(SubSeq(s, 1, Len(s) - 1)) ELSE s
Strip(s) == LStrip(RStrip(s))

\* path.strip(), then the 'img/' prefix removed
CleanPath(p) ==
    LET q == Strip(p)
    IN  IF q # << >> /\ Head(q) = "img/" THEN Tail(q) ELSE q

\* One entry of image_refs, from the two groups of a match.
ImageRef(alt_text, path) ==
    [ alt_text |-> alt_text,
      path |-> path,
      original_markdown |-> <<"!", "[">> \o alt_text \o <<"]", "(">> \o path \o <<")">> ]

\* _extract_image_references
ExtractImageReferences(s) ==
    LET ms == Matches(s, 1)
    IN  [ n \in 1..Len(ms) |->
            ImageRef(SubSeq(s, ms[n].start + 2, ms[n].mid - 1),
                     CleanPath(SubSeq(s, ms[n].mid + 2, ms[n].end - 1))) ]

Placeholder == <<"[", "W", "]">>

\* IMAGE_PATTERN.sub('[IMAGE_PLACEHOLDER]', content) from position i on
RECURSIVE SubFrom(_, _)
SubFrom(s, i) ==
    IF i > Len(s) THEN << >>
    ELSE IF MatchAt(s, i)
         THEN Placeholder \o SubFrom(s, TheMatch(s, i).end + 1)
         ELSE <<s[i]>> \o SubFrom(s, i + 1)

\* _remove_image_references
RemoveImageReferences(s) == SubFrom(s, 1)

\* content.split('\n'): the lines from position i on
RECURSIVE Lines(_, _, _)
Lines(s, i, cur) ==
    IF i > Len(s) THEN <<cur>>
    ELSE IF s[i] = "\n" THEN <<cur>> \o Lines(s, i + 1, << >>)
    ELSE Lines(s, i + 1, Append(cur, s[i]))

UntitledDocument == <<"Untitled Document">>

StartsWithH1(line) == Len(line) >= 2 /\ line[1] = "#" /\ line[2] = " "

\* A faulty variant of ExtractTitle: the last H1 line is taken.
ExtractTitleLast(s) ==
    LET ls == Lines(s, 1, << >>)
        hs == { n \in 1..Len(ls) : StartsWithH1(ls[n]) }
        last == CHOOSE n \in hs : \A m \in hs : m <= n
    IN  IF hs = {} THEN UntitledDocument
        ELSE Strip(SubSeq(ls[last], 3, Len(ls[last])))

\* _extract_title_from_markdown
ExtractTitle(s) ==
    LET ls == Lines(s, 1, << >>)
        hs == { n \in 1..Len(ls) : StartsWithH1(ls[n]) }
    IN  IF hs = {} THEN UntitledDocument
        ELSE Strip(SubSeq(ls[Min(hs)], 3, Len(ls[Min(hs)])))

\* The positions where the literal text [IMAGE_PLACEHOLDER] stands in s.
PlaceholderPositions(s) ==
    { p \in 1..(Len(s) - 2) : SubSeq(s, p, p + 2) = Placeholder }

(***************************************************************************)
(* The process: logger, file system, results                               *)
(***************************************************************************)

\* logger.info / logger.warning / logger.error on the module-level logger:
\* a record below the logger's level is dropped.
\* A record is <<level name, message, argument of the message>>.
EmitArg(l, level, lvl, msg, arg) ==
    IF lvl = "INFO" /\ level = "WARNING" THEN l ELSE l \cup {<<lvl, msg, arg>>}
Emit(l, level, lvl, msg) == EmitArg(l, level, lvl, msg, "")

\* The entries of the file system a call can touch.  "pre": there before the
\* call; "new": written in full by the call; "partial": created by the call,
\* whose write then failed.
FileNames == {"workdir", "input", "img", "temp", "lua", "output"}
FileStates == {"absent", "pre", "new", "partial"}
Exists(f, name) == f[name] # "absent"

NoResult == [kind |-> "none", exc |-> "", msg |-> << >>]
Returned == [kind |-> "returned", exc |-> "", msg |-> << >>]
Raised(exc, msg) == [kind |-> "raised", exc |-> exc, msg |-> msg]

NoRun == [ran |-> FALSE, code |-> 0, stderr |-> ""]

\* Outcomes of writing a file with open(path, 'w') and f.write(...).
WriteOutcomes == {"ok", "open_fails", "write_fails"}
Written(f, name, io) ==
    CASE io = "ok"          -> [f EXCEPT ![name] = "new"]
      [] io = "write_fails" -> [f EXCEPT ![name] = "partial"]
      [] OTHER              -> f

\* A faulty variant of Unlinked: the file is never removed.
UnlinkedNever(f, name, unlinkOk) == f

\* path.exists() followed by path.unlink(), which may fail.
Unlinked(f, name, unlinkOk) ==
    IF Exists(f, name) /\ unlinkOk THEN [f EXCEPT ![name] = "absent"] ELSE f

\* The file system as a call finds it: whatever exists was there before it.
AsFound(f) == [n \in FileNames |-> IF Exists(f, n) THEN "pre" ELSE "absent"]

\* The locals of convert are gone once the call has returned or raised.
LocalsGone ==
    /\ content' = << >> /\ title' = << >> /\ image_refs' = << >> /\ tempText' = << >>
    /\ doc' = << >> /\ styles' = {} /\ styled' = {} /\ sections' = << >>
    /\ tables' = << >>
    /\ doc0' = << >> /\ refs0' = << >>

(***************************************************************************)
(* MarkdownToDocxConverter: construction                                   *)
(***************************************************************************)

NoConverter == [built |-> FALSE, verbose |-> TRUE, center_title |-> TRUE]

\* A faulty variant of CheckDependencies: the check left out.
CheckDependenciesSkipped(avail) == "ok"

\* _check_dependencies
CheckDependencies(avail) == IF avail THEN "ok" ELSE "RuntimeError"

\* MarkdownToDocxConverter.__init__(None, verbose): the configuration is
\* DocumentConfig(), whose center_title is True.  When the constructor raises,
\* the caller is left with the converter it had.
Construct(verbose) ==
    /\ pc = "idle"
    /\ loggerLevel' = IF ~verbose THEN "WARNING" ELSE loggerLevel
    /\ IF CheckDependencies(pandocAvail) = "ok"
       THEN /\ conv' = [built |-> TRUE, verbose |-> verbose, center_title |-> TRUE]
            /\ ctorResult' = Returned
       ELSE /\ conv' = conv
            /\ ctorResult' = Raised("RuntimeError", <<"Pandoc is not installed">>)
    /\ UNCHANGED <<cfgVars, pandocAvail, fs, imgFiles, pc, result, content, title,
                   image_refs, tempText, docVars, histVars>>

\* The environment: pandoc is installed or removed between two calls.
PandocChanges ==
    /\ pc = "idle"
    /\ pandocAvail' = ~pandocAvail
    /\ UNCHANGED <<cfgVars, loggerLevel, fs, imgFiles, callVars, docVars, log,
                   trace, fs0, doc0, refs0, pandocRun>>

(***************************************************************************)
(* convert: the steps before the try block                                 *)
(***************************************************************************)

\* A faulty variant of InputMissing: the existence check left out.
InputMissingIgnored(f) == FALSE

\* not input_path.exists()
InputMissing(f) == ~Exists(f, "input")

\* convert is called: _setup_paths, then the two checks on the input path.
ConvertStart(isMd) ==
    /\ pc = "idle"
    /\ conv.built
    /\ fs' = AsFound(fs) /\ fs0' = AsFound(fs)
    /\ trace' = << >> /\ pandocRun' = NoRun
    /\ IF ~Exists(fs, "workdir")
       THEN /\ result' = Raised("FileNotFoundError", <<"Working directory not found">>)
            /\ pc' = "idle" /\ log' = {}
       ELSE IF InputMissing(fs)
       THEN /\ result' = Raised("FileNotFoundError", <<"Input file not found">>)
            /\ pc' = "idle" /\ log' = {}
       ELSE /\ result' = NoResult
            /\ pc' = "mkimg"
            /\ log' = IF isMd THEN {}
                      ELSE Emit({}, loggerLevel, "WARNING", "may not be a markdown file")
    /\ UNCHANGED <<cfgVars, pandocAvail, loggerLevel, imgFiles, conv, ctorResult,
                   content, title, image_refs, tempText, docVars, doc0, refs0>>

\* _create_image_directory
CreateImageDirectory ==
    /\ pc = "mkimg"
    /\ \E mkdirOk \in BOOLEAN :
         IF Exists(fs, "img")
         THEN /\ pc' = "read" /\ UNCHANGED <<fs, log, result>>
         ELSE IF mkdirOk
         THEN /\ fs' = [fs EXCEPT !["img"] = "new"]
              /\ log' = Emit(log, loggerLevel, "INFO", "Created image directory")
              /\ pc' = "read" /\ UNCHANGED result
         ELSE /\ result' = Raised("OSError", <<"mkdir">>)
              /\ pc' = "idle" /\ UNCHANGED <<fs, log>>
    /\ UNCHANGED <<cfgVars, pandocAvail, loggerLevel, imgFiles, conv, ctorResult, content, title,
                   image_refs, tempText, docVars, trace, fs0, doc0, refs0, pandocRun>>

\* The Markdown texts the input file of a call may hold.
InputContents ==
    { << >>,
      <<"#", " ", "a">>,
      <<"#", " ", "a", "\n", "!", "[", "a", "]", "(", "img/", "a", ")">> }

\* _read_markdown_content
ReadMarkdownContent ==
    /\ pc = "read"
    /\ \E c \in InputContents, readOk \in BOOLEAN :
         IF readOk
         THEN /\ content' = c /\ pc' = "title" /\ UNCHANGED result
         ELSE /\ result' = Raised("IOError", <<"Cannot read markdown file">>)
              /\ pc' = "idle" /\ UNCHANGED content
    /\ UNCHANGED <<cfgVars, envVars, conv, ctorResult, title, image_refs, tempText, docVars,
                   log, trace, fs0, doc0, refs0, pandocRun>>

\* document_title = self._extract_title_from_markdown(content)
ExtractTitleStep ==
    /\ pc = "title"
    /\ title' = ExtractTitle(content)
    /\ pc' = "refs"
    /\ UNCHANGED <<cfgVars, envVars, conv, ctorResult, result, content, image_refs, tempText,
                   docVars, log, trace, fs0, doc0, refs0, pandocRun>>

\* image_refs = self._extract_image_references(content)
ExtractImageReferencesStep ==
    /\ pc = "refs"
    /\ image_refs' = ExtractImageReferences(content)
    /\ log' = Emit(log, loggerLevel, "INFO", "Found image references")
    /\ pc' = "temp"
    /\ UNCHANGED <<cfgVars, envVars, conv, ctorResult, result, content, title, tempText,
                   docVars, trace, fs0, doc0, refs0, pandocRun>>

\* _create_temp_markdown: called before the try block of convert is entered.
CreateTempMarkdown ==
    /\ pc = "temp"
    /\ \E io \in WriteOutcomes :
         /\ fs' = Written(fs, "temp", io)
         /\ IF io = "ok"
            THEN /\ tempText' = RemoveImageReferences(content)
                 /\ pc' = "pandoc"
                 /\ UNCHANGED <<result, content, title, image_refs, docVars, doc0, refs0>>
            ELSE /\ result' = Raised("IOError", <<"Cannot create temporary markdown file">>)
                 /\ pc' = "idle"
                 /\ LocalsGone
    /\ UNCHANGED <<cfgVars, pandocAvail, loggerLevel, imgFiles, conv, ctorResult, log, trace, fs0,
                   pandocRun>>

(***************************************************************************)
(* Documents.  A paragraph's text is a sequence of items: the document     *)
(* title, some other text, the placeholder [IMAGE_PLACEHOLDER], or one of  *)
(* the two markers _insert_single_image writes.                            *)
(***************************************************************************)

Item(k, alt) == [k |-> k, alt |-> alt]
TitleItem == Item("title", << >>)
TextItem == Item("txt", << >>)
PlaceholderItem == Item("ph", << >>)
\* f"[Image not found: {alt_text}]" and f"[Image: {alt_text}]"
NotFoundMarker(alt) == Item("notfound", alt)
ErrorMarker(alt) == Item("error", alt)

NoPicture == [path |-> << >>, w |-> 0, h |-> 0]

Para(text, style) ==
    [text |-> text, style |-> style, pic |-> NoPicture, fmt |-> "orig", align |-> "orig"]

\* The styles the post-processing looks up by name.
StyleNames ==
    { "Normal", "Title", "Heading 1", "Heading 2", "Heading 3",
      "Footnote Text", "Footnote Reference" }

\* '[IMAGE_PLACEHOLDER]' in para.text
HasPlaceholder(para) == \E n \in 1..Len(para.text) : para.text[n] = PlaceholderItem

\* para.text == document_title
IsTitleText(para) == para.text = <<TitleItem>>

\* The image files: what img_dir / path holds.
MAX_IMAGE_WIDTH == 5486400

ImageStates ==
    { [state |-> "missing", w |-> 0, h |-> 0],
      [state |-> "corrupt", w |-> 0, h |-> 0],
      [state |-> "ok", w |-> 2743200, h |-> 1828800],
      [state |-> "ok", w |-> 10972800, h |-> 3657600] }

ImageAt(files, path) ==
    IF path \in DOMAIN files THEN files[path] ELSE [state |-> "missing", w |-> 0, h |-> 0]

(***************************************************************************)
(* convert: the try block.  _run_pandoc_conversion                         *)
(***************************************************************************)

Stderrs == {"err1", "err2"}

\* The documents pandoc writes in Spec, and the styles they define.
PandocDocs ==
    { <<Para(<<TitleItem>>, "Title")>>,
      <<Para(<<TitleItem>>, "Title"), Para(<<TextItem>>, "Normal")>>,
      <<Para(<<TitleItem>>, "Title"), Para(<<PlaceholderItem>>, "Body Text")>> }
PandocStyleSets == { StyleNames, StyleNames \ {"Title"} }

\* A run of a footer paragraph: a piece of text, or the field _add_page_number
\* builds (fldChar begin, instrText PAGE, fldChar end).
TextRun(t) == [kind |-> "text", val |-> t]
PageField == [kind |-> "field", val |-> <<"PAGE">>]

FooterPara(runs, alignment, space_before) ==
    [runs |-> runs, alignment |-> alignment, space_before |-> space_before]
EmptyFooterPara == FooterPara(<< >>, "orig", 0)

\* A section: the numbers of w:titlePg and w:evenAndOddHeaders elements in its
\* sectPr, the two attributes _setup_footers sets, and the paragraphs of its
\* odd-page (default) and even-page footers.
Section(nElements, footer, even_page_footer) ==
    [ titlePg |-> nElements,
      evenAndOddHeaders |-> nElements,
      different_first_page_header_footer |-> nElements > 0,
      odd_and_even_pages_header_footer |-> nElements > 0,
      footer |-> footer,
      even_page_footer |-> even_page_footer ]

\* The document pandoc writes has one section, without footers.
PandocSections == << Section(0, << >>, << >>) >>

\* A run of a table cell: whether it is bold, whether it has the font name
\* and size of the tables ("table") and whether its w:lang is the
\* configured language ("set"), or what pandoc wrote ("orig").
CellRun(bold, font, lang) == [bold |-> bold, font |-> font, lang |-> lang]

\* A paragraph of a cell: its runs and its spacing.
CellPara(runs, spacing) == [runs |-> runs, spacing |-> spacing]

\* A cell: its paragraphs and its w:tcBorders element: "none", "own" for
\* borders it came with, "single" for the four single edges.
Cell(paras, borders) == [paras |-> paras, borders |-> borders]

EmptyCell == Cell(<<CellPara(<< >>, "orig")>>, "none")
TextCell == Cell(<<CellPara(<<CellRun(FALSE, "orig", "orig")>>, "orig")>>, "none")
BoldBorderedCell == Cell(<<CellPara(<<CellRun(TRUE, "orig", "orig")>>, "orig")>>, "own")

\* The document pandoc writes has one table: a header row and a row with an
\* empty cell.
PandocTables == << << <<TextCell, TextCell>>, <<TextCell, EmptyCell>> >> >>

\* A faulty variant of PandocRaises: subprocess.run without check=True.
PandocRaisesNever(code) == FALSE

\* subprocess.run(cmd, check=True, ...) raises CalledProcessError
PandocRaises(code) == code # 0

\* _run_pandoc_conversion: _create_lua_script, subprocess.run, and the finally
\* clause that removes the script when lua_path was assigned.
RunPandocConversion ==
    /\ pc = "pandoc"
    /\ \E lio \in WriteOutcomes, code \in {0, 1}, stderr \in Stderrs,
          unlinkOk \in BOOLEAN, d \in PandocDocs, ss \in PandocStyleSets :
         LET l1 == IF Exists(fs, "lua")
                   THEN Emit(log, loggerLevel, "WARNING", "Lua script already exists")
                   ELSE log
             f1 == Written(fs, "lua", lio)
             \* the finally clause: lua_path is still None when the script
             \* could not be written
             f2 == IF lio = "ok" THEN Unlinked(f1, "lua", unlinkOk) ELSE f1
             l2(l) == IF lio = "ok" /\ ~unlinkOk
                      THEN Emit(l, loggerLevel, "WARNING", "Could not delete temporary Lua file")
                      ELSE l
         IN  IF lio # "ok"
             THEN /\ fs' = f2
                  /\ log' = l2(Emit(l1, loggerLevel, "ERROR", "Error during pandoc conversion"))
                  /\ result' = Raised("OSError", <<"lua script">>)
                  /\ pc' = "cleanup"
                  /\ UNCHANGED <<pandocRun, doc, styles, sections, tables>>
             ELSE IF ~pandocAvail
             THEN /\ fs' = f2
                  /\ log' = l2(Emit(l1, loggerLevel, "ERROR", "Error during pandoc conversion"))
                  /\ result' = Raised("FileNotFoundError", <<"pandoc">>)
                  /\ pc' = "cleanup"
                  /\ UNCHANGED <<pandocRun, doc, styles, sections, tables>>
             ELSE IF PandocRaises(code)
             THEN /\ fs' = f2
                  /\ pandocRun' = [ran |-> TRUE, code |-> code, stderr |-> stderr]
                  /\ log' = l2(Emit(l1, loggerLevel, "ERROR", "Pandoc conversion failed"))
                  /\ result' = Raised("RuntimeError", <<"Pandoc conversion failed: ", stderr>>)
                  /\ pc' = "cleanup"
                  /\ UNCHANGED <<doc, styles, sections, tables>>
             ELSE /\ fs' = IF code = 0 THEN [f2 EXCEPT !["output"] = "new"] ELSE f2
                  /\ pandocRun' = [ran |-> TRUE, code |-> code,
                                   stderr |-> IF code = 0 THEN "" ELSE stderr]
                  /\ log' = l2(Emit(l1, loggerLevel, "INFO", "Pandoc conversion completed successfully"))
                  /\ doc' = d /\ styles' = ss /\ sections' = PandocSections
                  /\ tables' = PandocTables
                  /\ pc' = "post_open"
                  /\ UNCHANGED result
    /\ styled' = {}
    /\ UNCHANGED <<cfgVars, pandocAvail, loggerLevel, imgFiles, conv, ctorResult, content, title,
                   image_refs, tempText, trace, fs0, doc0, refs0>>

(***************************************************************************)
(* convert: the try block.  _post_process_document                         *)
(***************************************************************************)

\* The part of every post-processing step that is not its own effect.
PostFrame ==
    UNCHANGED <<cfgVars, envVars, conv, ctorResult, content, title, tempText, fs0, pandocRun>>

\* doc = Document(doc_path)
OpenDocument ==
    /\ pc = "post_open"
    /\ pc' = "lang"
    /\ trace' = Append(trace, "open")
    /\ PostFrame
    /\ UNCHANGED <<result, image_refs, docVars, log, doc0, refs0>>

\* _set_document_language
SetDocumentLanguage ==
    /\ pc = "lang"
    /\ pc' = "std"
    /\ trace' = Append(trace, "language")
    /\ PostFrame
    /\ UNCHANGED <<result, image_refs, docVars, log, doc0, refs0>>

\* _apply_style_configurations: a style the document lacks raises KeyError,
\* which is caught inside the loop and logged.
StylesConfigured(done, present, names) == done \cup (names \cap present)
StyleWarnings(l, level, present, names) ==
    l \cup { <<"WARNING", "Style not found", n>> : n \in names \ present }

\* _configure_standard_styles
ConfigureStandardStyles ==
    /\ pc = "std"
    /\ styled' = StylesConfigured(styled, styles, {"Normal", "Title"})
    /\ log' = StyleWarnings(log, loggerLevel, styles, {"Normal", "Title"})
    /\ pc' = "head"
    /\ trace' = Append(trace, "standard_styles")
    /\ PostFrame
    /\ UNCHANGED <<result, image_refs, doc, styles, sections, tables, doc0, refs0>>

\* _configure_heading_styles
ConfigureHeadingStyles ==
    /\ pc = "head"
    /\ styled' = StylesConfigured(styled, styles, {"Heading 1", "Heading 2", "Heading 3"})
    /\ log' = StyleWarnings(log, loggerLevel, styles, {"Heading 1", "Heading 2", "Heading 3"})
    /\ pc' = "section"
    /\ trace' = Append(trace, "heading_styles")
    /\ PostFrame
    /\ UNCHANGED <<result, image_refs, doc, styles, sections, tables, doc0, refs0>>

\* _configure_section_properties
ConfigureSectionProperties ==
    /\ pc = "section"
    /\ pc' = "maintitle"
    /\ trace' = Append(trace, "section_properties")
    /\ PostFrame
    /\ UNCHANGED <<result, image_refs, docVars, log, doc0, refs0>>

\* The paragraphs after _style_main_title, or the KeyError of
\* doc.styles['Title'] on a document without that style.
StyleMainTitleResult(paras, present, center) ==
    LET ms == { i \in 1..Len(paras) : IsTitleText(paras[i]) }
        t == Min(ms)
        centred(a) == IF center THEN "center" ELSE a
    IN  IF ms = {} THEN [exc |-> "", paras |-> paras]
        ELSE IF "Title" \notin present THEN [exc |-> "KeyError", paras |-> paras]
        ELSE [ exc |-> "",
               paras |-> [ i \in 1..Len(paras) |->
                   IF i = t
                   THEN [paras[i] EXCEPT !.style = "Title", !.pic = NoPicture,
                                         !.fmt = "title", !.align = centred(@)]
                   ELSE IF i \in {t + 1, t + 2}
                   THEN [paras[i] EXCEPT !.pic = NoPicture, !.fmt = "meta",
                                         !.align = centred(@)]
                   ELSE paras[i] ] ]

\* _style_main_title
StyleMainTitle ==
    /\ pc = "maintitle"
    /\ LET r == StyleMainTitleResult(doc, styles, conv.center_title)
       IN  IF r.exc = ""
           THEN /\ doc' = r.paras /\ pc' = "paras"
                /\ trace' = Append(trace, "main_title")
                /\ UNCHANGED result
           ELSE /\ result' = Raised(r.exc, <<"Title">>)
                /\ pc' = "cleanup"
                /\ UNCHANGED <<doc, trace>>
    /\ PostFrame
    /\ UNCHANGED <<image_refs, styles, styled, sections, tables, log, doc0, refs0>>

\* Python floats are IEEE 754 doubles: MantissaBits significant bits, results
\* rounded to nearest, ties to even.  Bit sequences have the most significant
\* bit first.  The operators below compute in machine integers, which limits
\* them to dividends below 2^31 and divisors below 2^25.
MantissaBits == 53

Bit(bits, i) == IF i \in 1..Len(bits) THEN bits[i] ELSE 0

\* The number the last eight bits of a sequence stand for.
Low8(bits) ==
    LET n == Len(bits)
    IN  Bit(bits, n) + 2 * Bit(bits, n - 1) + 4 * Bit(bits, n - 2)
        + 8 * Bit(bits, n - 3) + 16 * Bit(bits, n - 4) + 32 * Bit(bits, n - 5)
        + 64 * Bit(bits, n - 6) + 128 * Bit(bits, n - 7)

RECURSIVE ValueOf(_)
ValueOf(bits) ==
    IF Len(bits) <= 8 THEN Low8(bits)
    ELSE 256 * ValueOf(SubSeq(bits, 1, Len(bits) - 8)) + Low8(bits)

\* The bits of n in a field of k bits.
FixedBits(n, k) == [i \in 1..k |-> (n \div 2^(k - i)) % 2]

\* A bit sequence without its leading zeros.
Significant(bits) ==
    LET ones == { i \in 1..Len(bits) : bits[i] = 1 }
    IN  IF ones = {} THEN << >> ELSE SubSeq(bits, Min(ones), Len(bits))

\* The long division r / b in base 64: the next n digits after the point,
\* and the remainder left.
RECURSIVE DivDigits(_, _, _)
DivDigits(r, b, n) ==
    IF n = 0 THEN [ds |-> << >>, r |-> r]
    ELSE LET t == DivDigits((r * 64) % b, b, n - 1)
         IN  [ds |-> <<(r * 64) \div b>> \o t.ds, r |-> t.r]

\* aspect_ratio = picture.height / picture.width: the double nearest to a / b,
\* as (the number bits stands for + up) / 2^f, for a > 0.
FloatDiv(a, b) ==
    LET q == DivDigits(a % b, b, 14)
        all == FixedBits(a \div b, 31)
               \o [j \in 1..84 |-> FixedBits(q.ds[((j - 1) \div 6) + 1], 6)[((j - 1) % 6) + 1]]
        first == Min({ i \in 1..115 : all[i] = 1 })
        last == first + MantissaBits - 1
        sticky == q.r # 0 \/ \E j \in (last + 2)..115 : all[j] = 1
    IN  [ bits |-> SubSeq(all, first, last), f |-> last - 31,
          up |-> IF all[last + 1] = 1 /\ (sticky \/ all[last] = 1) THEN 1 ELSE 0 ]

\* k times the number whose base-256 digits, least significant first, are
\* ds[i..], plus carry; least significant digit first.
RECURSIVE TimesSmall(_, _, _, _)
TimesSmall(ds, i, k, carry) ==
    IF i > Len(ds)
    THEN IF carry = 0 THEN << >>
         ELSE <<carry % 256>> \o TimesSmall(ds, i, k, carry \div 256)
    ELSE <<(k * ds[i] + carry) % 256>>
         \o TimesSmall(ds, i + 1, k, (k * ds[i] + carry) \div 256)

\* int(k * x) for the double x: the exact product k * (bits + up), rounded to
\* MantissaBits significant bits, then cut at the binary point.
IntOfProduct(k, x) ==
    LET ds == [j \in 1..7 |-> Low8(SubSeq(x.bits, 1, MantissaBits - 8 * (j - 1)))]
        pd == TimesSmall(ds, 1, k, k * x.up)
        P == Significant([i \in 1..(8 * Len(pd)) |->
                 FixedBits(pd[Len(pd) - (i - 1) \div 8], 8)[((i - 1) % 8) + 1]])
        n == Len(P)
        ip == n - x.f
        up == /\ n > MantissaBits
              /\ P[MantissaBits + 1] = 1
              /\ \/ P[MantissaBits] = 1
                 \/ \E j \in (MantissaBits + 2)..n : P[j] = 1
    IN  IF ip < 0 THEN 0
        ELSE ValueOf(SubSeq(P, 1, ip))
             + (IF up /\ \A j \in (ip + 1)..MantissaBits : P[j] = 1 THEN 1 ELSE 0)

\* picture.height = int(picture.width * aspect_ratio) once picture.width is
\* MAX_IMAGE_WIDTH
ScaledHeight(w, h) ==
    IF h = 0 THEN 0 ELSE IntOfProduct(MAX_IMAGE_WIDTH, FloatDiv(h, w))

\* A faulty variant of Picture: the picture keeps its native size.
PictureNotResized(path, img) == [path |-> path, w |-> img.w, h |-> img.h]

\* run.add_picture and the resizing that follows it
Picture(path, img) ==
    IF img.w > MAX_IMAGE_WIDTH
    THEN [path |-> path, w |-> MAX_IMAGE_WIDTH, h |-> ScaledHeight(img.w, img.h)]
    ELSE [path |-> path, w |-> img.w, h |-> img.h]

\* A faulty variant of InsertSingleImage: image_path.exists() is not tested, and the
\* error of add_picture on a missing file is not caught.
InsertSingleImageUnchecked(para, refs, files, level) ==
    IF refs = << >>
    THEN [para |-> para, refs |-> refs, log |-> {}, exc |-> "IndexError"]
    ELSE IF ImageAt(files, Head(refs).path).state = "ok"
    THEN [ para |-> [para EXCEPT !.text = << >>,
                                 !.pic = Picture(Head(refs).path,
                                                 ImageAt(files, Head(refs).path)),
                                 !.align = "center"],
           refs |-> Tail(refs), log |-> {}, exc |-> "" ]
    ELSE [para |-> para, refs |-> Tail(refs), log |-> {}, exc |-> "FileNotFoundError"]

\* _insert_single_image: the paragraph and the list after it, what it logs,
\* and the exception it raises (image_refs.pop(0) on an empty list).
InsertSingleImage(para, refs, files, level) ==
    IF refs = << >>
    THEN [para |-> para, refs |-> refs, log |-> {}, exc |-> "IndexError"]
    ELSE
    LET ref == Head(refs)
        img == ImageAt(files, ref.path)
        l0 == Emit({}, level, "INFO", "Processing image")
    IN  CASE img.state = "missing" ->
               [ para |-> [para EXCEPT !.text = <<NotFoundMarker(ref.alt_text)>>,
                                       !.pic = NoPicture],
                 refs |-> Tail(refs),
                 log |-> Emit(l0, level, "WARNING", "Image not found"),
                 exc |-> "" ]
          [] img.state = "corrupt" ->
               [ para |-> [para EXCEPT !.text = <<ErrorMarker(ref.alt_text)>>,
                                       !.pic = NoPicture],
                 refs |-> Tail(refs),
                 log |-> Emit(l0, level, "ERROR", "Error adding image"),
                 exc |-> "" ]
          [] OTHER ->
               [ para |-> [para EXCEPT !.text = << >>,
                                       !.pic = Picture(ref.path, img),
                                       !.align = "center"],
                 refs |-> Tail(refs),
                 log |-> Emit(l0, level, "INFO", "Added image"),
                 exc |-> "" ]

\* _format_normal_paragraph
FormatNormalParagraph(para) == [para EXCEPT !.fmt = "normal"]

\* A faulty variant of TakesImage: the title and the headings are skipped
\* before the placeholder is looked for.
TakesImageByStyle(para, refs) ==
    /\ HasPlaceholder(para) /\ refs # << >>
    /\ para.style \notin {"Title", "Heading 1", "Heading 2", "Heading 3"}

\* A faulty variant of TakesImage: the test on image_refs left out.
TakesImageUnguarded(para, refs) == HasPlaceholder(para)

\* '[IMAGE_PLACEHOLDER]' in para.text and image_refs
TakesImage(para, refs) == HasPlaceholder(para) /\ refs # << >>

\* The loop of _process_paragraphs_and_images from paragraph i on.
RECURSIVE Walk(_, _, _, _, _, _)
Walk(paras, refs, files, level, lg, i) ==
    IF i > Len(paras)
    THEN [paras |-> paras, refs |-> refs, log |-> lg, exc |-> ""]
    ELSE IF TakesImage(paras[i], refs)
    THEN LET r == InsertSingleImage(paras[i], refs, files, level)
         IN  IF r.exc # ""
             THEN [paras |-> paras, refs |-> refs, log |-> lg, exc |-> r.exc]
             ELSE Walk([paras EXCEPT ![i] = r.para], r.refs, files, level,
                       lg \cup r.log, i + 1)
    ELSE IF paras[i].style \in {"Title", "Heading 1", "Heading 2", "Heading 3"}
    THEN Walk(paras, refs, files, level, lg, i + 1)
    ELSE IF paras[i].style = "Normal"
    THEN Walk([paras EXCEPT ![i] = FormatNormalParagraph(paras[i])], refs, files,
              level, lg, i + 1)
    ELSE Walk(paras, refs, files, level, lg, i + 1)

\* _process_paragraphs_and_images
ProcessParagraphsAndImages ==
    /\ pc = "paras"
    /\ doc0' = doc /\ refs0' = image_refs
    /\ LET r == Walk(doc, image_refs, imgFiles, loggerLevel, log, 1)
       IN  /\ doc' = r.paras /\ image_refs' = r.refs /\ log' = r.log
           /\ IF r.exc = ""
              THEN /\ pc' = "tables"
                   /\ trace' = Append(trace, "paragraphs")
                   /\ UNCHANGED result
              ELSE /\ result' = Raised(r.exc, <<"pop from empty list">>)
                   /\ pc' = "cleanup"
                   /\ UNCHANGED trace
    /\ PostFrame
    /\ UNCHANGED <<styles, styled, sections, tables>>

\* _format_table_cell, the loop over para.runs: font name and size, bold
\* for a header cell, and _set_language_for_run.
FormatCellRun(run, is_header) ==
    CellRun(run.bold \/ is_header, "table", "set")

\* _format_table_cell, if not para.runs: the run that is added gets font name
\* and size, bold for a header cell, and no language.
AddedCellRun(is_header) == CellRun(is_header, "table", "orig")

\* _format_table_cell, the body of the loop over cell.paragraphs.  The loop
\* over para.runs ends before a run is added to a paragraph without runs.
FormatCellPara(para, is_header) ==
    CellPara(IF para.runs = << >>
             THEN <<AddedCellRun(is_header)>>
             ELSE [ i \in 1..Len(para.runs) |-> FormatCellRun(para.runs[i], is_header) ],
             "cell")

\* _format_table_cell
FormatTableCell(cell, is_header) ==
    [ cell EXCEPT !.paras = [ i \in 1..Len(@) |-> FormatCellPara(@[i], is_header) ] ]

\* _set_cell_borders
SetCellBorders(cell) ==
    IF cell.borders # "none" THEN cell ELSE [cell EXCEPT !.borders = "single"]

\* The body of the loop of _process_tables on one table: the cells of the
\* first row as header cells, then every cell of every row.
ProcessTable(table) ==
    LET headed == IF table # << >>
                  THEN [ table EXCEPT ![1] =
                           [ c \in 1..Len(@) |-> FormatTableCell(@[c], TRUE) ] ]
                  ELSE table
    IN  [ r \in 1..Len(headed) |->
            [ c \in 1..Len(headed[r]) |->
                SetCellBorders(FormatTableCell(headed[r][c], FALSE)) ] ]

\* for table in doc.tables: ...
ProcessTablesOn(ts) == [ i \in 1..Len(ts) |-> ProcessTable(ts[i]) ]

\* A faulty variant of ProcessTables: the document is saved right after the
\* tables, before the footnotes and the footers.
ProcessTablesThenSave ==
    /\ pc = "tables"
    /\ tables' = ProcessTablesOn(tables)
    /\ pc' = "save"
    /\ trace' = Append(trace, "tables")
    /\ PostFrame
    /\ UNCHANGED <<result, image_refs, doc, styles, styled, sections, log, doc0, refs0>>

\* _process_tables
ProcessTables ==
    /\ pc = "tables"
    /\ tables' = ProcessTablesOn(tables)
    /\ pc' = "footnotes"
    /\ trace' = Append(trace, "tables")
    /\ PostFrame
    /\ UNCHANGED <<result, image_refs, doc, styles, styled, sections, log, doc0, refs0>>

\* _process_footnotes: the first style lookup that fails ends the step with
\* a warning; what was configured before it stays configured.
ProcessFootnotes ==
    /\ pc = "footnotes"
    /\ IF "Footnote Text" \notin styles
       THEN /\ log' = log \cup {<<"WARNING", "Footnote style not found", "Footnote Text">>}
            /\ UNCHANGED styled
       ELSE IF "Footnote Reference" \notin styles
       THEN /\ log' = log \cup {<<"WARNING", "Footnote style not found", "Footnote Reference">>}
            /\ styled' = styled \cup {"Footnote Text"}
       ELSE /\ styled' = styled \cup {"Footnote Text", "Footnote Reference"}
            /\ UNCHANGED log
    /\ pc' = "footers"
    /\ trace' = Append(trace, "footnotes")
    /\ PostFrame
    /\ UNCHANGED <<result, image_refs, doc, styles, sections, tables, doc0, refs0>>

\* self.config.footer_text of the converter's DocumentConfig()
ConverterFooterText == [odd |-> "Page", even |-> "Page"]

\* bool(element): an element is true when it has child elements; w:titlePg
\* and w:evenAndOddHeaders elements have none.
HasChildren(tag) == FALSE

\* not sectPr.find(qn(tag)), in a sectPr with n elements of that tag: find
\* returns None or the first of them.
NotFind(n, tag) == n = 0 \/ ~HasChildren(tag)

\* footer.paragraphs[0] if footer.paragraphs else footer.add_paragraph()
WithFirstParagraph(footer) == IF footer # << >> THEN footer ELSE <<EmptyFooterPara>>

\* p_odd after clear(), alignment, space_before, add_run and _add_page_number
OddFooterPara(footer_text) ==
    FooterPara(<<TextRun(<<footer_text.odd, " | ">>), PageField>>, "RIGHT", 12)

\* p_even after clear(), alignment, space_before, _add_page_number and add_run
EvenFooterPara(footer_text) ==
    FooterPara(<<PageField, TextRun(<<" | ", footer_text.even>>)>>, "LEFT", 12)

\* The body of the loop of _setup_footers on one section.
SetupFootersSection(section, footer_text) ==
    [ titlePg |->
        IF NotFind(section.titlePg, "w:titlePg")
        THEN section.titlePg + 1 ELSE section.titlePg,
      evenAndOddHeaders |->
        IF NotFind(section.evenAndOddHeaders, "w:evenAndOddHeaders")
        THEN section.evenAndOddHeaders + 1 ELSE section.evenAndOddHeaders,
      different_first_page_header_footer |-> TRUE,
      odd_and_even_pages_header_footer |-> TRUE,
      footer |->
        [WithFirstParagraph(section.footer) EXCEPT ![1] = OddFooterPara(footer_text)],
      even_page_footer |->
        [WithFirstParagraph(section.even_page_footer)
            EXCEPT ![1] = EvenFooterPara(footer_text)] ]

\* for section in doc.sections: ...
SetupFootersOn(secs, footer_text) ==
    [ i \in 1..Len(secs) |-> SetupFootersSection(secs[i], footer_text) ]

\* _setup_footers
SetupFooters ==
    /\ pc = "footers"
    /\ sections' = SetupFootersOn(sections, ConverterFooterText)
    /\ pc' = "save"
    /\ trace' = Append(trace, "footers")
    /\ PostFrame
    /\ UNCHANGED <<result, image_refs, doc, styles, styled, tables, log, doc0, refs0>>

\* A faulty variant of SaveRaises: the exception of doc.save is swallowed.
SaveRaisesNever(saveOk) == FALSE

\* try: doc.save(doc_path) / except Exception: raise IOError(...)
SaveRaises(saveOk) == ~saveOk

\* doc.save(doc_path), and on success the last line of convert's try block.
\* The trace records the save that was made, or the one that failed.
SaveDocument ==
    /\ pc = "save"
    /\ \E saveOk \in BOOLEAN :
         /\ trace' = Append(trace, IF saveOk THEN "save" ELSE "save_failed")
         /\ IF SaveRaises(saveOk)
            THEN /\ result' = Raised("IOError", <<"Cannot save document">>)
                 /\ UNCHANGED log
            ELSE /\ log' = Emit(log, loggerLevel, "INFO", "Conversion successful")
                 /\ result' = Returned
    /\ pc' = "cleanup"
    /\ PostFrame
    /\ UNCHANGED <<image_refs, docVars, doc0, refs0>>

\* The finally clause of convert: _cleanup_temp_markdown.  result holds the
\* exception in flight, which the call then raises.
CleanupTempMarkdown ==
    /\ pc = "cleanup"
    /\ \E unlinkOk \in BOOLEAN :
         /\ fs' = Unlinked(fs, "temp", unlinkOk)
         /\ log' = IF Exists(fs, "temp") /\ ~unlinkOk
                   THEN Emit(log, loggerLevel, "WARNING", "Could not delete temporary markdown file")
                   ELSE log
    /\ pc' = "idle"
    /\ LocalsGone
    /\ UNCHANGED <<cfgVars, pandocAvail, loggerLevel, imgFiles, conv, ctorResult, result, trace,
                   fs0, pandocRun>>

(***************************************************************************)
(* Spec: a process that builds converters and calls convert                *)
(***************************************************************************)

DefaultArgs ==
    [ base_font_size |-> 12, margins |-> [i \in 1..4 |-> 2], line_spacing |-> 1,
      heading_colors |-> [isNone |-> TRUE, d |-> << >>],
      footer_text |-> [kind |-> "None", keys |-> {}, len |-> 0] ]

\* No DocumentConfig is under construction.
ConfigIdle == cfgArgs = DefaultArgs /\ cfgObj = NoConfig /\ cfgResult = "none"

\* The file systems a process can start on: nothing exists outside a working
\* directory that does not exist.
InitialFs ==
    { f \in [FileNames -> {"absent", "pre"}] :
        f["workdir"] = "absent" => \A n \in FileNames : f[n] = "absent" }

NoCall ==
    /\ content = << >> /\ title = << >> /\ image_refs = << >> /\ tempText = << >>
    /\ doc = << >> /\ styles = {} /\ styled = {} /\ sections = << >> /\ tables = << >>
    /\ log = {} /\ trace = << >> /\ doc0 = << >> /\ refs0 = << >>
    /\ pandocRun = NoRun

Init ==
    /\ ConfigIdle
    /\ pandocAvail \in BOOLEAN
    /\ loggerLevel = "INFO"
    /\ fs \in InitialFs
    /\ fs0 = fs
    /\ imgFiles \in [{<<"a">>} -> {i \in ImageStates : i.w = 0}]
    /\ conv = NoConverter
    /\ ctorResult = NoResult
    /\ pc = "idle"
    /\ result = NoResult
    /\ NoCall

NextPost ==
    \/ OpenDocument
    \/ SetDocumentLanguage
    \/ ConfigureStandardStyles
    \/ ConfigureHeadingStyles
    \/ ConfigureSectionProperties
    \/ StyleMainTitle
    \/ ProcessParagraphsAndImages
    \/ ProcessTables
    \/ ProcessFootnotes
    \/ SetupFooters
    \/ SaveDocument
    \/ CleanupTempMarkdown

NextExtract ==
    \/ ExtractTitleStep
    \/ ExtractImageReferencesStep
    \/ CreateTempMarkdown

Next ==
    \/ \E verbose \in BOOLEAN : Construct(verbose)
    \/ PandocChanges
    \/ \E isMd \in BOOLEAN : ConvertStart(isMd)
    \/ CreateImageDirectory
    \/ ReadMarkdownContent
    \/ NextExtract
    \/ RunPandocConversion
    \/ NextPost

Spec == Init /\ [][Next]_vars

(***************************************************************************)
(* SpecConfig: DocumentConfig(...) on every argument list of ConfigArgs    *)
(***************************************************************************)

\* The process outside any convert call, on a working directory that holds
\* the input file and the img directory.
Quiet ==
    /\ pandocAvail = TRUE
    /\ loggerLevel = "INFO"
    /\ fs = [n \in FileNames |-> IF n \in {"workdir", "input", "img"} THEN "pre" ELSE "absent"]
    /\ fs0 = fs
    /\ imgFiles = << >>
    /\ conv = NoConverter
    /\ ctorResult = NoResult
    /\ pc = "idle"
    /\ result = NoResult
    /\ NoCall

InitConfig ==
    /\ cfgArgs \in ConfigArgs
    /\ cfgObj = NoConfig
    /\ cfgResult = "none"
    /\ Quiet

NextConfig == ConfigInit

SpecConfig == InitConfig /\ [][NextConfig]_vars

(***************************************************************************)
(* SpecExtract: the pre-processing steps of convert on every Markdown text *)
(* made of at most MaxFrags fragments                                      *)
(***************************************************************************)

MaxFrags == 3

Fragments ==
    { <<c>> : c \in {"!", "[", "]", "(", ")", "a", "W", "\n", " ", "img/", "#"} }
    \cup { <<"!", "[", "a", "]", "(", "a", ")">>,
           <<"!", "[", "]", "(", " ", "img/", "a", " ", ")">>,
           <<"[", "W", "]">>,
           <<"#", " ", "a">>,
           <<"#", " ", "Untitled Document">> }

RECURSIVE TextsOf(_)
TextsOf(n) ==
    IF n = 0 THEN { << >> }
    ELSE LET shorter == TextsOf(n - 1)
         IN  shorter \cup { t \o f : t \in shorter, f \in Fragments }

InitExtract ==
    /\ ConfigIdle
    /\ pandocAvail = TRUE
    /\ loggerLevel = "INFO"
    /\ fs = [n \in FileNames |-> IF n \in {"workdir", "input", "img"} THEN "pre" ELSE "absent"]
    /\ fs0 = fs
    /\ imgFiles = << >>
    /\ conv = [built |-> TRUE, verbose |-> TRUE, center_title |-> TRUE]
    /\ ctorResult = Returned
    /\ pc = "title"
    /\ result = NoResult
    /\ content \in TextsOf(MaxFrags)
    /\ title = << >> /\ image_refs = << >> /\ tempText = << >>
    /\ doc = << >> /\ styles = {} /\ styled = {} /\ sections = << >> /\ tables = << >>
    /\ log = {} /\ trace = << >> /\ doc0 = << >> /\ refs0 = << >>
    /\ pandocRun = NoRun

SpecExtract == InitExtract /\ [][NextExtract]_vars

(***************************************************************************)
(* SpecPost: _post_process_document and the end of convert, on every       *)
(* document of at most MaxParas paragraphs and every list of at most       *)
(* MaxRefs image references                                                *)
(***************************************************************************)

MaxParas == 2
MaxRefs == 2

ParaKinds ==
    { Para(<<TitleItem>>, "Title"),
      Para(<<TitleItem>>, "Body Text"),
      Para(<<TextItem>>, "Normal"),
      Para(<<TextItem>>, "Heading 1"),
      Para(<<PlaceholderItem>>, "Body Text"),
      Para(<<PlaceholderItem, PlaceholderItem>>, "Body Text"),
      Para(<<TextItem, PlaceholderItem>>, "Normal") }

RECURSIVE DocsOf(_)
DocsOf(n) ==
    IF n = 0 THEN { << >> }
    ELSE LET shorter == DocsOf(n - 1)
         IN  shorter \cup { Append(d, p) : d \in shorter, p \in ParaKinds }

\* The n-th reference of a list: alt texts and paths are pairwise different.
RefPath(n) == <<"p", ToString(n)>>
Ref(n) == ImageRef(<<"alt", ToString(n)>>, RefPath(n))
RefsOf(n) == [i \in 1..n |-> Ref(i)]

\* The documents' style sets: at most one looked-up style is missing, one for
\* each place of the code that looks styles up ("Heading 2" and "Heading 3" are
\* looked up where "Heading 1" is, "Footnote Reference" where "Footnote Text"
\* is).
PostStyleSets ==
    {StyleNames} \cup
    { StyleNames \ {s} : s \in {"Title", "Normal", "Heading 1", "Footnote Text"} }

InitPost ==
    /\ ConfigIdle
    /\ pandocAvail = TRUE
    /\ loggerLevel = "INFO"
    /\ fs = [n \in FileNames |->
               IF n \in {"workdir", "input", "img"} THEN "pre"
               ELSE IF n \in {"temp", "output"} THEN "new" ELSE "absent"]
    /\ fs0 = [n \in FileNames |-> IF n \in {"workdir", "input", "img"} THEN "pre" ELSE "absent"]
    /\ \E n \in 0..MaxRefs :
         /\ image_refs = RefsOf(n)
         /\ imgFiles \in [{RefPath(i) : i \in 1..n} -> ImageStates]
    /\ conv \in { [built |-> TRUE, verbose |-> TRUE, center_title |-> c] : c \in BOOLEAN }
    /\ ctorResult = Returned
    /\ pc = "post_open"
    /\ result = NoResult
    /\ content = << >> /\ title = <<"a">> /\ tempText = << >>
    /\ styles \in PostStyleSets
    /\ doc \in { d \in DocsOf(MaxParas) :
                   \A i \in 1..Len(d) : d[i].style \in styles \cup {"Body Text"} }
    /\ styled = {} /\ sections = PandocSections /\ tables = PandocTables
    /\ log = {} /\ trace = << >> /\ doc0 = << >> /\ refs0 = << >>
    /\ pandocRun = [ran |-> TRUE, code |-> 0, stderr |-> ""]

SpecPost == InitPost /\ [][NextPost]_vars

(***************************************************************************)
(* SpecPicture: the paragraph walk on one placeholder paragraph whose      *)
(* image is a readable file of 72 dpi, of one of the widths below and of   *)
(* every height up to MaxPictureHeight pixels                              *)
(***************************************************************************)

MaxPictureHeight == 20

\* Widths in pixels: below, at and above MAX_IMAGE_WIDTH (432 pixels).
PictureWidths == {431, 432, 433, 540, 864, 1296}

\* python-docx gives a picture of 72 dpi 914400 / 72 length units per pixel.
Emu(px) == px * 12700

PictureFiles ==
    { [state |-> "ok", w |-> Emu(pw), h |-> Emu(ph)] :
        pw \in PictureWidths, ph \in 1..MaxPictureHeight }

InitPicture ==
    /\ ConfigIdle
    /\ pandocAvail = TRUE
    /\ loggerLevel = "INFO"
    /\ fs = [n \in FileNames |->
               IF n \in {"workdir", "input", "img"} THEN "pre"
               ELSE IF n \in {"temp", "output"} THEN "new" ELSE "absent"]
    /\ fs0 = [n \in FileNames |-> IF n \in {"workdir", "input", "img"} THEN "pre" ELSE "absent"]
    /\ image_refs = RefsOf(1)
    /\ imgFiles \in [{RefPath(1)} -> PictureFiles]
    /\ conv = [built |-> TRUE, verbose |-> TRUE, center_title |-> TRUE]
    /\ ctorResult = Returned
    /\ pc = "paras"
    /\ result = NoResult
    /\ content = << >> /\ title = <<"a">> /\ tempText = << >>
    /\ styles = StyleNames
    /\ doc = <<Para(<<PlaceholderItem>>, "Body Text")>>
    /\ styled = StyleNames \ {"Footnote Text", "Footnote Reference"}
    /\ sections = PandocSections /\ tables = PandocTables
    /\ log = {}
    /\ trace = <<"open", "language", "standard_styles", "heading_styles",
                 "section_properties", "main_title">>
    /\ doc0 = << >> /\ refs0 = << >>
    /\ pandocRun = [ran |-> TRUE, code |-> 0, stderr |-> ""]

NextPicture == ProcessParagraphsAndImages

SpecPicture == InitPicture /\ [][NextPicture]_vars

(***************************************************************************)
(* SpecFooters: _setup_footers, applied once or several times to the       *)
(* sections of a document of at most MaxSections sections                  *)
(***************************************************************************)

MaxSections == 2
MaxApplications == 2

\* A footer as _setup_footers may find it: without a paragraph, with an empty
\* one, or with one paragraph of some earlier content.
FooterKinds ==
    { << >>, <<EmptyFooterPara>>, <<FooterPara(<<TextRun(<<"a">>)>>, "CENTER", 0)>> }

SectionKinds ==
    { Section(n, f, e) : n \in {0, 1}, f \in FooterKinds, e \in FooterKinds }

SectionLists == UNION { [1..k -> SectionKinds] : k \in 1..MaxSections }

\* The number of times _setup_footers was applied to the document.
Applications == Cardinality({ i \in 1..Len(trace) : trace[i] = "footers" })

InitFooters ==
    /\ ConfigIdle
    /\ pandocAvail = TRUE
    /\ loggerLevel = "INFO"
    /\ fs = [n \in FileNames |->
                CASE n \in {"workdir", "input", "img"} -> "pre"
                  [] n \in {"temp", "output"} -> "new"
                  [] OTHER -> "absent"]
    /\ fs0 = [n \in FileNames |-> IF n \in {"workdir", "input", "img"} THEN "pre" ELSE "absent"]
    /\ image_refs = << >>
    /\ imgFiles = << >>
    /\ conv = [built |-> TRUE, verbose |-> TRUE, center_title |-> TRUE]
    /\ ctorResult = Returned
    /\ pc = "footers"
    /\ result = NoResult
    /\ content = << >> /\ title = <<"a">> /\ tempText = << >>
    /\ styles = StyleNames
    /\ doc = <<Para(<<TextItem>>, "Normal")>>
    /\ styled = StyleNames
    /\ sections \in SectionLists /\ tables = PandocTables
    /\ log = {}
    /\ trace = <<"open", "language", "standard_styles", "heading_styles",
                 "section_properties", "main_title", "paragraphs", "tables",
                 "footnotes">>
    /\ doc0 = << >> /\ refs0 = << >>
    /\ pandocRun = [ran |-> TRUE, code |-> 0, stderr |-> ""]

\* _setup_footers applied to the document, which may be given to it again.
SetupFootersAgain ==
    /\ pc = "footers"
    /\ Applications + 1 < MaxApplications
    /\ sections' = SetupFootersOn(sections, ConverterFooterText)
    /\ trace' = Append(trace, "footers")
    /\ PostFrame
    /\ UNCHANGED <<pc, result, image_refs, doc, styles, styled, tables, log, doc0, refs0>>

NextFooters == SetupFootersAgain \/ SetupFooters

SpecFooters == InitFooters /\ [][NextFooters]_vars

(***************************************************************************)
(* SpecTables: _process_tables, applied once or twice to a document with   *)
(* at most one table, of at most MaxRows rows of at most MaxCells cells    *)
(***************************************************************************)

MaxRows == 2
MaxCells == 2

CellKinds == {EmptyCell, TextCell, BoldBorderedCell}

RowsOf == UNION { [1..k -> CellKinds] : k \in 1..MaxCells }

TablesOf == UNION { [1..n -> RowsOf] : n \in 0..MaxRows }

TableLists == { << >> } \cup { <<t>> : t \in TablesOf }

\* The number of times _process_tables was applied to the document.
TableApplications == Cardinality({ i \in 1..Len(trace) : trace[i] = "tables" })

InitTables ==
    /\ ConfigIdle
    /\ pandocAvail = TRUE
    /\ loggerLevel = "INFO"
    /\ fs = [n \in FileNames |->
                CASE n \in {"workdir", "input", "img"} -> "pre"
                  [] n \in {"temp", "output"} -> "new"
                  [] OTHER -> "absent"]
    /\ fs0 = [n \in FileNames |-> IF n \in {"workdir", "input", "img"} THEN "pre" ELSE "absent"]
    /\ image_refs = << >>
    /\ imgFiles = << >>
    /\ conv = [built |-> TRUE, verbose |-> TRUE, center_title |-> TRUE]
    /\ ctorResult = Returned
    /\ pc = "tables"
    /\ result = NoResult
    /\ content = << >> /\ title = <<"a">> /\ tempText = << >>
    /\ styles = StyleNames
    /\ doc = <<Para(<<TextItem>>, "Normal")>>
    /\ styled = StyleNames \ {"Footnote Text", "Footnote Reference"}
    /\ sections = PandocSections
    /\ tables \in TableLists
    /\ log = {}
    /\ trace = <<"open", "language", "standard_styles", "heading_styles",
                 "section_properties", "main_title", "paragraphs">>
    /\ doc0 = << >> /\ refs0 = << >>
    /\ pandocRun = [ran |-> TRUE, code |-> 0, stderr |-> ""]

\* _process_tables applied to the document, which is then given to it again.
ProcessTablesAgain ==
    /\ pc = "tables"
    /\ TableApplications = 0
    /\ tables' = ProcessTablesOn(tables)
    /\ trace' = Append(trace, "tables")
    /\ PostFrame
    /\ UNCHANGED <<pc, result, image_refs, doc, styles, styled, sections, log, doc0, refs0>>

NextTables == ProcessTablesAgain \/ ProcessTables

SpecTables == InitTables /\ [][NextTables]_vars

(***************************************************************************)
(* SpecWalk: _process_paragraphs_and_images on every document of at most   *)
(* MaxParas paragraphs, each of any style with or without a placeholder,  *)
(* and every list of at most MaxRefs image references                     *)
(***************************************************************************)

WalkStyles == {"Title", "Heading 1", "Normal", "Body Text"}
WalkTexts == { <<TextItem>>, <<PlaceholderItem>> }
WalkParaKinds == { Para(t, st) : t \in WalkTexts, st \in WalkStyles }

RECURSIVE WalkDocsOf(_)
WalkDocsOf(n) ==
    IF n = 0 THEN { << >> }
    ELSE LET shorter == WalkDocsOf(n - 1)
         IN  shorter \cup { Append(d, p) : d \in shorter, p \in WalkParaKinds }

InitWalk ==
    /\ ConfigIdle
    /\ pandocAvail = TRUE
    /\ loggerLevel = "INFO"
    /\ fs = [n \in FileNames |->
                CASE n \in {"workdir", "input", "img"} -> "pre"
                  [] n \in {"temp", "output"} -> "new"
                  [] OTHER -> "absent"]
    /\ fs0 = [n \in FileNames |-> IF n \in {"workdir", "input", "img"} THEN "pre" ELSE "absent"]
    /\ \E n \in 0..MaxRefs :
         /\ image_refs = RefsOf(n)
         /\ imgFiles \in [{RefPath(i) : i \in 1..n} -> ImageStates]
    /\ conv = [built |-> TRUE, verbose |-> TRUE, center_title |-> TRUE]
    /\ ctorResult = Returned
    /\ pc = "paras"
    /\ result = NoResult
    /\ content = << >> /\ title = <<"a">> /\ tempText = << >>
    /\ styles = StyleNames
    /\ doc \in WalkDocsOf(MaxParas)
    /\ styled = StyleNames \ {"Footnote Text", "Footnote Reference"}
    /\ sections = PandocSections /\ tables = PandocTables
    /\ log = {}
    /\ trace = <<"open", "language", "standard_styles", "heading_styles",
                 "section_properties", "main_title">>
    /\ doc0 = << >> /\ refs0 = << >>
    /\ pandocRun = [ran |-> TRUE, code |-> 0, stderr |-> ""]

NextWalk == ProcessParagraphsAndImages

SpecWalk == InitWalk /\ [][NextWalk]_vars

(***************************************************************************)
(* Properties                                                              *)
(***************************************************************************)

Range(q) == { q[n] : n \in DOMAIN q }

\* The k-th smallest element of a set of numbers.
KthOf(S, k) == CHOOSE x \in S : Cardinality({ y \in S : y <= x }) = k

\* The paragraph walk of the call in progress has run to its end.
WalkDone ==
    /\ pc \in {"tables", "footnotes", "footers", "save", "cleanup"}
    /\ "paragraphs" \in Range(trace)

\* The paragraphs that hold at least one placeholder.
PlaceholderParas(paras) == { i \in 1..Len(paras) : HasPlaceholder(paras[i]) }

\* One entry per placeholder occurrence, in document order: the index of the
\* paragraph it stands in.
RECURSIVE OccurrencesFrom(_, _)
OccurrencesFrom(paras, i) ==
    IF i > Len(paras) THEN << >>
    ELSE [ n \in 1..Cardinality({ t \in 1..Len(paras[i].text) :
                                    paras[i].text[t] = PlaceholderItem }) |-> i ]
         \o OccurrencesFrom(paras, i + 1)
Occurrences(paras) == OccurrencesFrom(paras, 1)

\* A paragraph shows a reference: its picture, or a marker with its alt text.
Shows(para, ref) ==
    \/ para.pic.path = ref.path
    \/ para.text = <<NotFoundMarker(ref.alt_text)>>
    \/ para.text = <<ErrorMarker(ref.alt_text)>>

SuccessLogged == <<"INFO", "Conversion successful", "">> \in log

\* C1 (as claimed): once convert has returned or raised, neither the temporary
\* Markdown copy nor the temporary filter script the call wrote exists.
C1_NoTemporaryFileSurvives ==
    pc = "idle" =>
        /\ fs["temp"] \notin {"new", "partial"}
        /\ fs["lua"] \notin {"new", "partial"}

\* C2 (as claimed): when the paragraphs hold as many placeholder occurrences as
\* there are references, the walk consumes every reference and the i-th
\* occurrence in document order is replaced by the i-th reference.
C2_OccurrencesConsumedInOrder ==
    (WalkDone /\ Len(Occurrences(doc0)) = Len(refs0)) =>
        /\ image_refs = << >>
        /\ \A i \in 1..Len(refs0) : Shows(doc[Occurrences(doc0)[i]], refs0[i])

\* The place in the temporary text where the placeholder of the i-th match
\* must stand: the start of the match, moved by what the earlier replacements
\* removed or added.
RECURSIVE ShiftBefore(_, _)
ShiftBefore(ms, i) ==
    IF i <= 1 THEN 0
    ELSE ShiftBefore(ms, i - 1)
         + (Len(Placeholder) - (ms[i - 1].end - ms[i - 1].start + 1))
ExpectedPlaceholderAt(ms, i) == ms[i].start + ShiftBefore(ms, i)

\* C3 (as claimed): for a content with N image references, N references are
\* extracted in document order and the temporary text holds exactly N
\* placeholders, the i-th where the i-th reference stood.
C3_OnePlaceholderPerReference ==
    pc = "pandoc" =>
        LET ms == Matches(content, 1)
            pos == PlaceholderPositions(tempText)
        IN  /\ Len(image_refs) = Len(ms)
            /\ \A i \in 1..Len(ms) :
                 image_refs[i].alt_text = SubSeq(content, ms[i].start + 2, ms[i].mid - 1)
            /\ Cardinality(pos) = Len(ms)
            /\ \A i \in 1..Len(ms) : KthOf(pos, i) = ExpectedPlaceholderAt(ms, i)

\* C4: whatever the numbers P of placeholder paragraphs and N of references,
\* the walk never takes a reference from an empty list and runs to its end;
\* the first min(P, N) placeholder paragraphs receive the first min(P, N)
\* references in order, the other placeholder paragraphs keep their text and
\* the other references stay in the list.
C4_MismatchIsGraceful ==
    /\ result.exc # "IndexError"
    /\ WalkDone =>
         LET ph == PlaceholderParas(doc0)
             P == Cardinality(ph)
             N == Len(refs0)
             m == IF P <= N THEN P ELSE N
         IN  /\ Len(refs0) - Len(image_refs) = m
             /\ image_refs = SubSeq(refs0, m + 1, N)
             /\ \A k \in 1..P :
                  IF k <= m
                  THEN Shows(doc[KthOf(ph, k)], refs0[k])
                  ELSE /\ doc[KthOf(ph, k)].text = doc0[KthOf(ph, k)].text
                       /\ doc[KthOf(ph, k)].pic = NoPicture

\* C4's case: the walk is over, there were more placeholder paragraphs than
\* references, and at least one reference.
C4_Witness ==
    /\ WalkDone
    /\ Len(refs0) >= 1
    /\ Cardinality(PlaceholderParas(doc0)) > Len(refs0)
    /\ image_refs = << >>

\* What DocumentConfig is claimed to reject, read off the arguments passed.
PassedColorsMalformed(hc) ==
    /\ ~hc.isNone
    /\ \E l \in DOMAIN hc.d :
         ~( /\ hc.d[l].isTuple
            /\ Len(hc.d[l].comps) = 3
            /\ \A i \in 1..Len(hc.d[l].comps) : hc.d[l].comps[i] \in 0..255 )
PassedFooterMalformed(ft) ==
    /\ ft.kind # "None"
    /\ ~(ft.kind = "dict" /\ {"odd", "even"} \subseteq ft.keys)
ArgsInvalid(a) ==
    \/ a.base_font_size <= 0
    \/ \E i \in 1..4 : a.margins[i] < 0
    \/ a.line_spacing <= 0
    \/ PassedColorsMalformed(a.heading_colors)
    \/ PassedFooterMalformed(a.footer_text)

\* C5 (as claimed): construction raises ValueError exactly when an argument is
\* invalid -- an empty dict passed as footer_text included -- and succeeds
\* otherwise.
C5_ValueErrorIffInvalid ==
    cfgResult # "none" =>
        /\ cfgResult = "ValueError" <=> ArgsInvalid(cfgArgs)
        /\ cfgResult = "ok" <=> ~ArgsInvalid(cfgArgs)

PandocNotInstalled == Raised("RuntimeError", <<"Pandoc is not installed">>)

\* C6 (as claimed): while pandoc is not available no conversion step runs, in
\* any convert call.
C6_NoWorkWithoutPandoc == ~pandocAvail => pc = "idle"

\* C6 (amended): constructing a converter while pandoc is not available raises
\* RuntimeError, yields no converter object and touches no file or directory.
C6_ConstructionFailsWithoutPandoc ==
    [][ (~pandocAvail /\ \E verbose \in BOOLEAN : Construct(verbose)) =>
            /\ conv' = conv
            /\ ctorResult' = PandocNotInstalled
            /\ fs' = fs
            /\ pc' = "idle" ]_vars

\* C6's case: a construction has failed for want of pandoc, and no converter
\* exists.
C6_Witness ==
    /\ ~pandocAvail
    /\ ctorResult = PandocNotInstalled
    /\ ~conv.built

InputNotFound == Raised("FileNotFoundError", <<"Input file not found">>)

\* C7: a call on a working directory without the input file raises
\* FileNotFoundError at once: it never gets past its first step, no directory
\* or file is created or written and pandoc is not run.
C7_MissingInputRaisesFirst ==
    /\ pc # "idle" => Exists(fs0, "input")
    /\ (pc = "idle" /\ result.kind # "none"
            /\ Exists(fs0, "workdir") /\ ~Exists(fs0, "input")) =>
         result = InputNotFound
    /\ result = InputNotFound =>
         /\ pc = "idle"
         /\ ~Exists(fs0, "input")
         /\ fs = fs0
         /\ ~pandocRun.ran
         /\ trace = << >>

\* C7's case: a call has raised for a missing input file where no img
\* directory existed, and none exists now.
C7_Witness ==
    /\ result = InputNotFound
    /\ pc = "idle"
    /\ ~Exists(fs, "img")

\* C8: when the pandoc subprocess exits with a non-zero code the call raises
\* RuntimeError with the subprocess's stderr in its message, no post-processing
\* step runs and success is not logged; a post-processing step runs only after
\* pandoc has exited with code 0.
C8_PandocFailureIsFatal ==
    /\ (pandocRun.ran /\ pandocRun.code # 0) =>
         /\ pc \in {"cleanup", "idle"}
         /\ result = Raised("RuntimeError", <<"Pandoc conversion failed: ", pandocRun.stderr>>)
         /\ trace = << >>
         /\ ~SuccessLogged
    /\ trace # << >> => (pandocRun.ran /\ pandocRun.code = 0)

\* C8's case: a call has ended after pandoc failed with stderr "err2".
C8_Witness ==
    /\ pc = "idle"
    /\ pandocRun.ran /\ pandocRun.code # 0 /\ pandocRun.stderr = "err2"
    /\ result.exc = "RuntimeError"

\* C9: a reference whose image file is missing or cannot be embedded is
\* consumed and leaves a marker with its alt text in its paragraph; the walk
\* goes on to its end, and the call then ends only through the save step.
C9_BadImageIsNotFatal ==
    /\ WalkDone =>
         LET ph == PlaceholderParas(doc0)
             P == Cardinality(ph)
             N == Len(refs0)
             m == IF P <= N THEN P ELSE N
         IN  \A k \in 1..m :
               LET img == ImageAt(imgFiles, refs0[k].path)
                   para == doc[KthOf(ph, k)]
               IN  /\ refs0[k] \notin Range(image_refs)
                   /\ img.state = "missing" =>
                        para.text = <<NotFoundMarker(refs0[k].alt_text)>>
                   /\ img.state = "corrupt" =>
                        para.text = <<ErrorMarker(refs0[k].alt_text)>>
    /\ (pc = "cleanup" /\ "main_title" \in Range(trace)) =>
         /\ "paragraphs" \in Range(trace)
         /\ \/ result = Returned /\ "save" \in Range(trace)
            \/ result = Raised("IOError", <<"Cannot save document">>)

\* C9's case: the document has been saved; its first paragraph holds the
\* marker of a missing image and its second the picture of the next reference.
C9_Witness ==
    /\ pc = "cleanup"
    /\ result = Returned
    /\ Len(refs0) = 2 /\ Len(doc) = 2
    /\ doc[1].text = <<NotFoundMarker(refs0[1].alt_text)>>
    /\ doc[2].pic.path = refs0[2].path

\* C10 (as claimed): a missing named style ends no call: no post-processing
\* step raises the KeyError of the style lookup.
C10_MissingStyleIsNotFatal ==
    ~(result.kind = "raised" /\ result.exc = "KeyError")

SaveFailed == Raised("IOError", <<"Cannot save document">>)
DeleteWarned ==
    <<"WARNING", "Could not delete temporary markdown file", "">> \in log

RECURSIVE GCD(_, _)
GCD(a, b) == IF b = 0 THEN a ELSE GCD(b, a % b)

\* For a native size w x h: hh is the integer part of MAX_IMAGE_WIDTH * h / w;
\* hh is that quotient or lies less than one unit below it.
IsIntegerPart(hh, w, h) ==
    LET g == GCD(w, MAX_IMAGE_WIDTH)
    IN  /\ (w \div g) * hh <= (MAX_IMAGE_WIDTH \div g) * h
        /\ (MAX_IMAGE_WIDTH \div g) * h < (w \div g) * (hh + 1)
WithinOneUnit(hh, w, h) ==
    LET g == GCD(w, MAX_IMAGE_WIDTH)
    IN  /\ (w \div g) * hh <= (MAX_IMAGE_WIDTH \div g) * h
        /\ (MAX_IMAGE_WIDTH \div g) * h <= (w \div g) * (hh + 1)

\* The pictures the walk has inserted, each with the file it was read from.
Inserted ==
    { <<doc[i].pic, ImageAt(imgFiles, doc[i].pic.path)>> :
        i \in { j \in 1..Len(doc) : doc[j].pic # NoPicture } }

\* C12 (as claimed): a picture wider than MAX_IMAGE_WIDTH gets that width and
\* the integer part of MAX_IMAGE_WIDTH * height / width as its height; a
\* narrower one keeps its size; no inserted picture is wider.
C12_HeightIsIntegerPart ==
    WalkDone =>
        \A pf \in Inserted :
            /\ pf[1].w <= MAX_IMAGE_WIDTH
            /\ IF pf[2].w > MAX_IMAGE_WIDTH
               THEN pf[1].w = MAX_IMAGE_WIDTH /\ IsIntegerPart(pf[1].h, pf[2].w, pf[2].h)
               ELSE pf[1].w = pf[2].w /\ pf[1].h = pf[2].h

\* C12 (amended): a picture wider than MAX_IMAGE_WIDTH gets that width and a
\* height that is the exact scaled height MAX_IMAGE_WIDTH * height / width or
\* lies at most one unit below it; a narrower one keeps its size; no inserted
\* picture is wider.
C12_ResizeWithinOneUnit ==
    WalkDone =>
        \A pf \in Inserted :
            /\ pf[1].w <= MAX_IMAGE_WIDTH
            /\ IF pf[2].w > MAX_IMAGE_WIDTH
               THEN pf[1].w = MAX_IMAGE_WIDTH /\ WithinOneUnit(pf[1].h, pf[2].w, pf[2].h)
               ELSE pf[1].w = pf[2].w /\ pf[1].h = pf[2].h

\* C12's case: a picture wider than MAX_IMAGE_WIDTH has been inserted, and its
\* height is one unit below the exact scaled height.
C12_Witness ==
    /\ WalkDone
    /\ \E pf \in Inserted :
         /\ pf[2].w > MAX_IMAGE_WIDTH
         /\ pf[1].w = MAX_IMAGE_WIDTH
         /\ ~IsIntegerPart(pf[1].h, pf[2].w, pf[2].h)

\* The lines of the content, and whether one of them is an H1 heading.
ContentLines == Lines(content, 1, << >>)
HasH1 == \E n \in 1..Len(ContentLines) : StartsWithH1(ContentLines[n])
TitleExtracted == pc \in {"refs", "temp", "pandoc"}

\* C13 (as claimed): the title is the stripped text of the first line that
\* starts with '# ', and it is the string "Untitled Document" exactly when no
\* line of the content starts with '# '.
C13_UntitledIffNoH1 ==
    TitleExtracted => (title = UntitledDocument <=> ~HasH1)

\* C13 (amended): the title is the text after '# ' of the first line that
\* starts with '# ', stripped, and it is "Untitled Document" when no line
\* starts with '# '.
C13_TitleIsFirstH1 ==
    TitleExtracted =>
        /\ \A n \in 1..Len(ContentLines) :
             (StartsWithH1(ContentLines[n])
              /\ \A m \in 1..(n - 1) : ~StartsWithH1(ContentLines[m]))
             => title = Strip(SubSeq(ContentLines[n], 3, Len(ContentLines[n])))
        /\ ~HasH1 => title = UntitledDocument

\* C13 witness: a content with two H1 lines of different text has been given
\* the text of the first one.
C13_Witness ==
    /\ TitleExtracted
    /\ content = <<"#", " ", "a", "\n", "#", " ", "Untitled Document">>
    /\ title = <<"a">>

\* C14 (as claimed): what a call logs does not depend on the converters built
\* earlier in the process: as in a process where it is the first converter,
\* a converter built with verbose=True logs the success of a call that
\* returned.
C14_LogIndependentOfHistory ==
    (pc = "idle" /\ result = Returned /\ conv.built /\ conv.verbose) => SuccessLogged

\* The entries that exist and did not exist when the call began.
CreatedByCall == { n \in FileNames : Exists(fs, n) /\ ~Exists(fs0, n) }
LuaDeleteWarned ==
    <<"WARNING", "Could not delete temporary Lua file", "">> \in log

FormattingSteps ==
    << "language", "standard_styles", "heading_styles", "section_properties",
       "main_title", "paragraphs", "tables", "footnotes", "footers" >>
Saves == {"save", "save_failed"}
IsPrefix(s, t) == Len(s) <= Len(t) /\ s = SubSeq(t, 1, Len(s))

\* C16: the steps made on the opened document so far are the first steps of
\* the one sequence language, styles, headings, page, title block, paragraph
\* walk, tables, footnotes, footers, each made once, and a save, successful or
\* not, comes after all nine of them.
C16_StepsInFixedSequence ==
    trace # << >> =>
        /\ trace[1] = "open"
        /\ LET steps == Tail(trace)
               last == steps[Len(steps)]
           IN  IF steps # << >> /\ last \in Saves
               THEN SubSeq(steps, 1, Len(steps) - 1) = FormattingSteps
               ELSE IsPrefix(steps, FormattingSteps)

\* C16 witness: a document went through all nine steps and was saved.
C16_Witness ==
    /\ pc = "idle" /\ result = Returned
    /\ trace = <<"open">> \o FormattingSteps \o <<"save">>

\* C17 (as claimed): the i-th reference records the alt text and the cleaned
\* path of the i-th image markup of the content, and its original markup
\* string is that markup as the content has it.
C17_OriginalMarkdownIsVerbatim ==
    pc \in {"temp", "pandoc"} =>
        LET ms == Matches(content, 1)
        IN  /\ Len(image_refs) = Len(ms)
            /\ \A i \in 1..Len(ms) :
                 /\ image_refs[i].alt_text = SubSeq(content, ms[i].start + 2, ms[i].mid - 1)
                 /\ image_refs[i].original_markdown = SubSeq(content, ms[i].start, ms[i].end)

\* C18 (as claimed): a file other than the output document that existed when
\* the call began is neither rewritten nor removed by it: it is as the call
\* found it.
C18_ExistingFilesUntouched ==
    \A n \in FileNames \ {"output"} : fs0[n] = "pre" => fs[n] = "pre"

\* The paragraphs pandoc writes for the author and date metadata carry the
\* styles of these names; without an author and a date there are none.
IsAuthorOrDate(para) == para.style \in {"Author", "Date"}

\* What the claim allows _style_main_title to make of the paragraphs: the
\* first paragraph with the title's text gets the Title style, the author and
\* date paragraphs among the two after it may be reformatted, every other
\* paragraph is as it was and every text is kept.
TitleBlockOnly(before, after) ==
    LET ms == { i \in 1..Len(before) : IsTitleText(before[i]) }
    IN  IF ms = {} THEN after = before
        ELSE LET t == Min(ms)
             IN  /\ Len(after) = Len(before)
                 /\ after[t].style = "Title"
                 /\ \A i \in 1..Len(before) : after[i].text = before[i].text
                 /\ \A i \in 1..Len(before) :
                      (i # t /\ ~(i \in {t + 1, t + 2} /\ IsAuthorOrDate(before[i])))
                      => after[i] = before[i]

\* C19 (as claimed): _style_main_title restyles the title paragraph and the
\* author and date paragraphs that follow it and no other paragraph; it keeps
\* every text and changes nothing when no paragraph has the title's text.
C19_OnlyTitleBlockRestyled ==
    [][ (pc = "maintitle" /\ pc' = "paras") => TitleBlockOnly(doc, doc') ]_vars

\* The footers of a section as the claim describes them.
FootersAsClaimed(section) ==
    /\ Len(section.footer) = 1
    /\ section.footer[1].alignment = "RIGHT"
    /\ section.footer[1].runs = <<TextRun(<<ConverterFooterText.odd, " | ">>), PageField>>
    /\ Len(section.even_page_footer) = 1
    /\ section.even_page_footer[1].alignment = "LEFT"
    /\ section.even_page_footer[1].runs =
         <<PageField, TextRun(<<" | ", ConverterFooterText.even>>)>>

\* C20 (as claimed): _setup_footers leaves in every section a right-aligned
\* odd footer "<odd text> | " + PAGE field and a left-aligned even footer PAGE
\* field + " | <even text>", and applied to a document it was already applied
\* to it leaves the footers and the section settings as they were.
C20_FootersSetAndIdempotent ==
    [][ trace' = Append(trace, "footers") =>
          /\ \A i \in 1..Len(sections') : FootersAsClaimed(sections'[i])
          /\ Applications > 0 => sections' = sections ]_vars

\* The cells of the tables ts, as <<table, row, cell>> positions.
CellsOf(ts) ==
    { <<t, r, c>> \in (1..Len(ts)) \X (1..MaxRows + 1) \X (1..MaxCells + 1) :
        r <= Len(ts[t]) /\ c <= Len(ts[t][r]) }

\* What the claim says of the tables after _process_tables, given the tables
\* before it: borders in every cell, borders a cell had kept, every run of
\* the first row bold, the bold setting of every other run as it was.
TablesAsClaimed(before, after) ==
    /\ CellsOf(after) = CellsOf(before)
    /\ \A p \in CellsOf(before) :
         LET b == before[p[1]][p[2]][p[3]]
             a == after[p[1]][p[2]][p[3]]
         IN  /\ a.borders # "none"
             /\ b.borders # "none" => a.borders = b.borders
             /\ Len(a.paras) = Len(b.paras)
             /\ \A i \in 1..Len(a.paras) :
                  /\ p[2] = 1 => \A j \in 1..Len(a.paras[i].runs) : a.paras[i].runs[j].bold
                  /\ p[2] # 1 =>
                       \A j \in 1..Len(b.paras[i].runs) :
                          a.paras[i].runs[j].bold = b.paras[i].runs[j].bold

\* C21 (as claimed): _process_tables gives every cell borders, keeps the
\* borders a cell had, makes every run of the first row bold and changes the
\* bold setting of no other run, and applied to a document it was already
\* applied to it leaves the document as it was.
C21_TablesFormattedAndIdempotent ==
    [][ trace' = Append(trace, "tables") =>
          /\ TablesAsClaimed(tables, tables')
          /\ TableApplications > 0 => tables' = tables ]_vars

\* The number of paragraphs with a placeholder up to paragraph i.
PlaceholderRank(paras, i) ==
    Cardinality({ j \in PlaceholderParas(paras) : j <= i })

\* The paragraph is what _insert_single_image makes of one that takes ref:
\* the picture of the file, or the marker of a missing or unreadable file.
ReplacedBy(para, ref) ==
    LET img == ImageAt(imgFiles, ref.path)
    IN  CASE img.state = "missing" -> para.text = <<NotFoundMarker(ref.alt_text)>>
          [] img.state = "corrupt" -> para.text = <<ErrorMarker(ref.alt_text)>>
          [] OTHER -> para.text = << >> /\ para.pic.path = ref.path

\* C22: after the paragraph walk a paragraph that held no placeholder is
\* changed only if its style is Normal (the title, the headings and the
\* paragraphs of any other style are as they were), and a paragraph that held
\* a placeholder when a reference remained is replaced by the image of that
\* reference, whatever its style.
C22_WalkTouchesByStyle ==
    WalkDone =>
        /\ Len(doc) = Len(doc0)
        /\ \A i \in 1..Len(doc0) :
             IF HasPlaceholder(doc0[i])
             THEN PlaceholderRank(doc0, i) <= Len(refs0)
                  => /\ ReplacedBy(doc[i], refs0[PlaceholderRank(doc0, i)])
                     /\ doc[i].style = doc0[i].style
             ELSE doc[i] # doc0[i] => doc0[i].style = "Normal"

\* C22 witness: the walk is over a document whose heading held a placeholder
\* and now holds the picture of the first reference, and whose title, without
\* a placeholder, is as it was.
C22_Witness ==
    /\ WalkDone
    /\ doc0 = <<Para(<<PlaceholderItem>>, "Heading 1"), Para(<<TextItem>>, "Title")>>
    /\ refs0 # << >>
    /\ doc[1].pic.path = refs0[1].path
    /\ doc[2] = doc0[2]

====
